---- MODULE Spec2Model ----
(***************************************************************************)
(* Model of src/bot.py: a Telegram job-notification bot.  A scheduler      *)
(* fires check_and_post_jobs on an interval; one cycle loads the Dedup     *)
(* Store (posted_jobs.txt), queries the upstream once per (company, site)  *)
(* pair, collects the records whose id is not in the loaded set, and then  *)
(* sends and commits them one by one.                                      *)
(*                                                                         *)
(* Python strings are sequences of one-character strings, Python dicts are *)
(* records whose DOMAIN holds exactly the keys that are present.           *)
(***************************************************************************)
EXTENDS Integers, Sequences, FiniteSets, TLC

\* ------------------------------------------------------------ strings

\* Python's None, where a .get() finds no key: a value no string equals.
None == <<"None">>

\* The characters str.strip() and str.split() treat as whitespace.
Whitespace == {" ", "\n", "\t", "\r"}

UpperCase == <<"A", "B", "C", "D", "E", "F", "G", "H", "I", "J", "K", "L", "M",
               "N", "O", "P", "Q", "R", "S", "T", "U", "V", "W", "X", "Y", "Z">>

LowerCase == <<"a", "b", "c", "d", "e", "f", "g", "h", "i", "j", "k", "l", "m",
               "n", "o", "p", "q", "r", "s", "t", "u", "v", "w", "x", "y", "z">>

Digits == <<"0", "1", "2", "3", "4", "5", "6", "7", "8", "9">>

Range(s) == {s[k] : k \in DOMAIN s}

\* str.lower()
lower(s) ==
    [k \in DOMAIN s |->
        IF \E u \in DOMAIN UpperCase : UpperCase[u] = s[k]
        THEN LowerCase[CHOOSE u \in DOMAIN UpperCase : UpperCase[u] = s[k]]
        ELSE s[k]]

RECURSIVE lstrip(_)
lstrip(s) ==
    IF s = <<>> THEN s
    ELSE IF Head(s) \in Whitespace THEN lstrip(Tail(s)) ELSE s

RECURSIVE rstrip(_)
rstrip(s) ==
    IF s = <<>> THEN s
    ELSE IF s[Len(s)] \in Whitespace THEN rstrip(SubSeq(s, 1, Len(s) - 1)) ELSE s

\* str.strip()
strip(s) == rstrip(lstrip(s))

\* `sub in s`
Contains(s, sub) ==
    \E k \in 1..(Len(s) - Len(sub) + 1) : SubSeq(s, k, k + Len(sub) - 1) = sub

\* s.startswith(p)
startswith(s, p) == Len(s) >= Len(p) /\ SubSeq(s, 1, Len(p)) = p

\* s.split()[0]: the first whitespace-delimited word; <<>> stands for the
\* IndexError of an all-whitespace string.
FirstWord(s) ==
    LET t == lstrip(s)
        stops == {k \in DOMAIN t : t[k] \in Whitespace}
    IN  IF stops = {} THEN t
        ELSE SubSeq(t, 1, (CHOOSE k \in stops : \A m \in stops : k <= m) - 1)

IsDigit(c) == \E d \in DOMAIN Digits : Digits[d] = c

DigitValue(c) == (CHOOSE d \in DOMAIN Digits : Digits[d] = c) - 1

RECURSIVE DigitsValue(_)
DigitsValue(w) ==
    IF w = <<>> THEN 0
    ELSE 10 * DigitsValue(SubSeq(w, 1, Len(w) - 1)) + DigitValue(w[Len(w)])

\* int(w) succeeds: an optional sign and then decimal digits only.
IntParses(w) ==
    LET body == IF w # <<>> /\ Head(w) \in {"+", "-"} THEN Tail(w) ELSE w
    IN  body # <<>> /\ \A k \in DOMAIN body : IsDigit(body[k])

\* int(w), where IntParses(w)
IntValue(w) ==
    IF Head(w) = "-" THEN 0 - DigitsValue(Tail(w))
    ELSE IF Head(w) = "+" THEN DigitsValue(Tail(w))
    ELSE DigitsValue(w)

\* ------------------------------------------------------------ helpers

\* The lines a text file yields when iterated: each ends after a "\n",
\* the last one at the end of the file.
RECURSIVE readlines(_)
readlines(content) ==
    IF content = <<>> THEN <<>>
    ELSE LET breaks == {k \in DOMAIN content : content[k] = "\n"}
         IN  IF breaks = {} THEN <<content>>
             ELSE LET k == CHOOSE b \in breaks : \A m \in breaks : b <= m
                  IN  <<SubSeq(content, 1, k)>>
                        \o readlines(SubSeq(content, k + 1, Len(content)))

\* load_posted_jobs(): the set of stripped lines of POSTED_FILE; a file
\* that does not exist reads as the empty content.
load_posted_jobs(content) == {strip(l) : l \in Range(readlines(content))}

\* Fault: the file is opened with "w" and not with "a".
save_posted_job_Truncating(content, job_id) == job_id \o <<"\n">>

\* save_posted_job(job_id): the file after the append.
save_posted_job(content, job_id) == content \o job_id \o <<"\n">>

\* is_within_24_hours(posted_at)
is_within_24_hours(posted_at) ==
    IF posted_at = None \/ posted_at = <<>> THEN FALSE
    ELSE LET p == lower(posted_at)
         IN  IF Contains(p, <<"m", "i", "n", "u", "t", "e">>) THEN TRUE
             ELSE IF Contains(p, <<"h", "o", "u", "r">>)
                  THEN IntParses(FirstWord(p)) /\ IntValue(FirstWord(p)) <= 24
             ELSE IF Contains(p, <<"d", "a", "y">>)
                  THEN startswith(p, <<"1", " ", "d", "a", "y">>)
             ELSE FALSE

\* ------------------------------------------------------------ upstream

A == <<"A">>
B == <<"B">>
C == <<"C">>

\* The company/site directory load_companies() returns: company order,
\* then the site order within a company.
Companies ==
    << [company |-> <<"x">>, sites |-> << <<"s", "1">> >>],
       [company |-> <<"y">>, sites |-> << <<"s", "2">> >>] >>

\* The (company, site) pairs in the order of the two nested loops.
RECURSIVE SitePairs(_, _)
SitePairs(company, sites) ==
    IF sites = <<>> THEN <<>>
    ELSE <<[company |-> company, site |-> Head(sites)]>>
            \o SitePairs(company, Tail(sites))

RECURSIVE QueriesOf(_)
QueriesOf(cs) ==
    IF cs = <<>> THEN <<>>
    ELSE SitePairs(Head(cs).company, Head(cs).sites) \o QueriesOf(Tail(cs))

Queries == QueriesOf(Companies)

TwoHoursAgo == <<"2", " ", "h", "o", "u", "r", "s", " ", "a", "g", "o">>
TwoDaysAgo == <<"2", " ", "d", "a", "y", "s", " ", "a", "g", "o">>
UnitedStates ==
    <<"U", "n", "i", "t", "e", "d", " ", "S", "t", "a", "t", "e", "s">>

\* A well-formed upstream listing with the given job_id.
Listing(id) ==
    [job_id |-> id, title |-> <<"t">>,
     detected_extensions |-> [posted_at |-> TwoHoursAgo],
     apply_options |-> <<[link |-> <<"u">>]>>,
     description |-> <<"d">>]

LA == Listing(<<"A">>)
LB == Listing(<<"B">>)
LC == Listing(<<"C">>)
\* a job_id with trailing whitespace
LSpace == Listing(<<"A", " ">>)
\* recent and applicable, but without a title
LNoTitle ==
    [job_id |-> <<"D">>,
     detected_extensions |-> [posted_at |-> TwoHoursAgo],
     apply_options |-> <<[link |-> <<"u">>]>>]
\* no job_id: the id falls back to company-title
LNoId ==
    [title |-> <<"t">>, location |-> <<"L">>,
     detected_extensions |-> [posted_at |-> TwoHoursAgo],
     apply_options |-> <<[link |-> <<"u">>]>>]
\* too old
LOld ==
    [job_id |-> <<"E">>, title |-> <<"t">>,
     detected_extensions |-> [posted_at |-> TwoDaysAgo],
     apply_options |-> <<[link |-> <<"u">>]>>]
\* no way to apply
LNoApply ==
    [job_id |-> <<"F">>, title |-> <<"t">>,
     detected_extensions |-> [posted_at |-> TwoHoursAgo],
     apply_options |-> <<>>]
\* no age at all, and no title either
LNoPosted == [job_id |-> <<"G">>]
\* a title with a lone Markdown delimiter
LStar ==
    [job_id |-> <<"H">>, title |-> <<"t", "*">>,
     detected_extensions |-> [posted_at |-> TwoHoursAgo],
     apply_options |-> <<[link |-> <<"u">>]>>]

\* What requests.get(...).json() can come to: an exception (network
\* failure, timeout, a body that is not JSON), a JSON document that is not
\* an object, or a JSON object.
Responses ==
    { [kind |-> "exception"],
      [kind |-> "list"],
      [kind |-> "dict", body |-> [error |-> <<"e">>]],
      [kind |-> "dict", body |-> [jobs_results |-> <<LA, LB>>]],
      [kind |-> "dict", body |-> [jobs_results |-> <<LB, LC>>]],
      [kind |-> "dict", body |-> [jobs_results |-> <<LC, LNoTitle>>]],
      [kind |-> "dict",
       body |-> [jobs_results |-> <<LOld, LNoApply, LNoPosted, LNoId, LSpace, LStar>>]] }

\* d.get(key, default)
Get(d, key, default) == IF key \in DOMAIN d THEN d[key] ELSE default

\* ------------------------------------------------------------ fetch

\* Fault: the id is j.get("job_id", "") and nothing else.
JobId_NoFallback(company, j) == Get(j, "job_id", <<>>)

\* The id of the record of listing j (line 154): its job_id, or
\* company-title when it has none or an empty one.
JobId(company, j) ==
    IF Get(j, "job_id", None) \notin {None, <<>>}
    THEN j.job_id
    ELSE company \o <<"-">> \o j.title

\* The body of the loop over jobs_results (lines 144-162), over the
\* listings still to visit: the records appended, or the KeyError of
\* j["title"].
RECURSIVE FetchLoop(_, _, _)
FetchLoop(company, site, listings) ==
    IF listings = <<>> THEN [raised |-> FALSE, jobs |-> <<>>]
    ELSE LET j == Head(listings)
             posted_at == Get(Get(j, "detected_extensions", <<>>), "posted_at", None)
             apply_opts == Get(j, "apply_options", <<>>)
             rest == FetchLoop(company, site, Tail(listings))
         IN  IF ~is_within_24_hours(posted_at) THEN rest
             ELSE IF apply_opts = <<>> THEN rest
             ELSE IF "title" \notin DOMAIN j THEN [raised |-> TRUE, jobs |-> <<>>]
             ELSE IF rest.raised THEN rest
             ELSE [raised |-> FALSE,
                   jobs |-> <<[id |-> JobId(company, j),
                               title |-> j.title,
                               company |-> company,
                               location |-> Get(j, "location", UnitedStates),
                               summary |-> Get(j, "description", <<>>),
                               url |-> Get(apply_opts[1], "link", None),
                               source |-> site,
                               posted |-> posted_at]>> \o rest.jobs]

\* fetch_company_jobs(company, site), given what the request comes to:
\* the exception of the request is caught (lines 137-140); res.get on a
\* document that is not an object raises AttributeError outside the try.
fetch_company_jobs(company, site, resp) ==
    IF resp.kind = "exception" THEN [raised |-> FALSE, caught |-> TRUE, jobs |-> <<>>]
    ELSE IF resp.kind = "list" THEN [raised |-> TRUE, caught |-> FALSE, jobs |-> <<>>]
    ELSE LET r == FetchLoop(company, site, Get(resp.body, "jobs_results", <<>>))
         IN  [raised |-> r.raised, caught |-> FALSE, jobs |-> r.jobs]

\* ------------------------------------------------------------ notifier

\* The length job['summary'] is cut to in the message.
SummaryLimit == 700

\* s[:n]
Take(s, n) == SubSeq(s, 1, IF Len(s) < n THEN Len(s) ELSE n)

\* What an f-string makes of a value: None reads "None".
Format(v) == IF v = None THEN <<"N", "o", "n", "e">> ELSE v

\* The message of post_job up to the summary (lines 170-175); an emoji is
\* one character, written by its code point.
MessageHead(job) ==
    <<"U+1F4CC", " ", "*">> \o Format(job.title) \o <<"*", "\n", "\n">>
    \o <<"U+1F3E2", " ">> \o Format(job.company) \o <<"\n">>
    \o <<"U+1F4CD", " ">> \o Format(job.location) \o <<"\n">>
    \o <<"U+1F310", " ", "S", "o", "u", "r", "c", "e", ":", " ">>
    \o Format(job.source) \o <<"\n">>
    \o <<"U+23F1", " ", "P", "o", "s", "t", "e", "d", ":", " ">>
    \o Format(job.posted) \o <<"\n", "\n">>
    \o <<"U+1F4DD", " ">>

\* The message of post_job after the summary (lines 175-176).
MessageTail(job) ==
    <<"\n", "\n", "U+1F517", " ", "[", "A", "p", "p", "l", "y", " ",
      "H", "e", "r", "e", "]", "(">> \o Format(job.url) \o <<")">>

\* msg of post_job (lines 169-177).
post_job_text(job) ==
    MessageHead(job) \o Take(job.summary, SummaryLimit) \o MessageTail(job)

Count(s, c) == Len(SelectSeq(s, LAMBDA x : x = c))

\* The channel parses the text as Markdown (parse_mode="Markdown", line
\* 182) and rejects a text in which a delimiter of an entity (of bold or
\* of italic here) is not closed.
MarkdownParses(text) ==
    \A c \in {"*", "_"} : Count(text, c) % 2 = 0

\* ------------------------------------------------------------ state

\* Cycles the scheduler may start in one behaviour.
MaxCycles == 2

\* Fault: the job is added with max_instances=2.
MaxInstances_Two == 1 + 1

\* The instances of the job the scheduler lets run at once: what
\* add_job(check_and_post_jobs, "interval", ...) leaves at its default.
MaxInstances == 1

RequiredEnv == {"BOT_TOKEN", "GROUP_CHAT_ID", "SERPAPI_KEY"}

VARIABLES
    env,        \* the required environment variables that are set
    proc,       \* "running" once the module-level checks passed, else "exited"
    file,       \* the content of POSTED_FILE
    instances,  \* the scheduler's count of running instances of the job
    pc,         \* where check_and_post_jobs stands: "idle", "fetching",
                \* "sending" (awaiting bot.send_message), "committing"
    posted,     \* the set load_posted_jobs() returned to this cycle
    new_jobs,   \* the candidates of this cycle
    q,          \* the index in Queries of the next fetch
    i,          \* the index in new_jobs of the candidate being delivered
    cycles,     \* cycles started so far
    trace,      \* history: the sends and commits of the current cycle
    results,    \* history: what each fetch of the current cycle came to
    offered,    \* history: the ids of new_jobs when the fetches were done
    everSent,   \* history: the ids of the messages the channel accepted
    lastEnd,    \* history: how the latest cycle ended, "running" meanwhile
    prev,       \* history: the id whose send failed in the cycle before
    skipped,    \* history: a tick was skipped during the current await
    committed,  \* history: the ids whose save_posted_job call completed
    observing,  \* whether the two histories below are kept
    durable,    \* history: what committed was at the latest crash
    starved,    \* history: the candidates left unattempted by the latest
                \* cycles, each ended by a failed send, and how many cycles
    arg,        \* the argument a function is applied to on its own
    ret         \* what that application returned

vars == <<env, proc, file, instances, pc, posted, new_jobs, q, i, cycles,
          trace, results, offered, everSent, lastEnd, prev, skipped,
          committed, observing, durable, starved, arg, ret>>

\* The application of a function on its own, apart from the running bot.
alone == <<arg, ret>>
NoArg == [fn |-> "none"]
NoRet == [done |-> FALSE]

locals == <<posted, new_jobs, q, i>>

\* No candidate is being left unattempted.
NoneStarved == [n |-> 0, ids |-> {}]

\* Fault: the three `if not ...: raise RuntimeError` checks are missing.
Startup_Unchecked(e) == "running"

\* The checks of lines 19-24 on the variables that are set (and not
\* empty): a RuntimeError at import ends the process before main() runs.
Startup(e) == IF e = RequiredEnv THEN "running" ELSE "exited"

\* The bot after the module-level statements (lines 11-27) have run.
InitBot ==
    /\ env \in SUBSET RequiredEnv
    /\ proc = Startup(env)
    /\ file = <<>>
    /\ instances = 0
    /\ pc = "idle"
    /\ posted = {}
    /\ new_jobs = <<>>
    /\ q = 0
    /\ i = 0
    /\ cycles = 0
    /\ committed = {}
    /\ durable = {}
    /\ starved = NoneStarved
    /\ trace = <<>>
    /\ results = <<>>
    /\ offered = <<>>
    /\ everSent = {}
    /\ lastEnd = "none"
    /\ prev = None
    /\ skipped = FALSE

Init ==
    /\ InitBot
    /\ observing = FALSE
    /\ arg = NoArg
    /\ ret = NoRet

\* Fault: an exception of the job is not caught by the executor, and the
\* instance it counted is never released.
EndCycle_Leak(how) ==
    /\ pc' = "idle"
    /\ posted' = {}
    /\ new_jobs' = <<>>
    /\ q' = 0
    /\ i' = 0
    /\ instances' = IF how = "raised" THEN instances ELSE instances - 1
    /\ lastEnd' = how
    /\ skipped' = FALSE

\* check_and_post_jobs is over, by a return or by an exception the
\* scheduler's executor logs: its locals are gone, its instance is released.
EndCycle(how) ==
    /\ pc' = "idle"
    /\ posted' = {}
    /\ new_jobs' = <<>>
    /\ q' = 0
    /\ i' = 0
    /\ instances' = instances - 1
    /\ lastEnd' = how
    /\ skipped' = FALSE

\* The id whose send failed in the cycle the trace is of, if one did.
FailedIn(tr) ==
    IF tr # <<>> /\ tr[Len(tr)].ev = "send_failed" THEN tr[Len(tr)].id ELSE None

\* The interval trigger fires while no instance runs: the job is submitted
\* and check_and_post_jobs starts by loading the store and the directory
\* (lines 189-193).  Reading the store may fail with an error other than
\* FileNotFoundError, and reading the directory may fail: either ends the
\* cycle at once.
TickStart ==
    /\ proc = "running"
    /\ UNCHANGED <<alone, observing>>
    /\ pc \in {"idle", "sending"}
    /\ instances < MaxInstances
    /\ cycles < MaxCycles
    /\ UNCHANGED <<committed, durable, starved>>
    /\ cycles' = cycles + 1
    /\ trace' = <<>>
    /\ results' = <<>>
    /\ offered' = <<>>
    /\ prev' = FailedIn(trace)
    /\ skipped' = FALSE
    /\ \E readable \in BOOLEAN :
        IF readable
        THEN /\ instances' = instances + 1
             /\ posted' = load_posted_jobs(file)
             /\ new_jobs' = <<>>
             /\ q' = 1
             /\ i' = 0
             /\ pc' = "fetching"
             /\ lastEnd' = "running"
        ELSE /\ instances' = instances
             /\ pc' = "idle"
             /\ lastEnd' = "raised"
             /\ UNCHANGED locals
    /\ UNCHANGED <<env, proc, file, everSent>>

\* The interval trigger fires while the cycle awaits a send: the scheduler
\* finds the maximum number of running instances reached and skips the run.
TickSkip ==
    /\ proc = "running"
    /\ UNCHANGED <<alone, observing>>
    /\ pc = "sending"
    /\ instances >= MaxInstances
    /\ UNCHANGED <<committed, durable, starved>>
    /\ skipped' = TRUE
    /\ UNCHANGED <<env, proc, file, instances, pc, locals, cycles,
                   trace, results, offered, everSent, lastEnd, prev>>

\* Fault: the membership test of line 199 is missing.
NewOf_Unfiltered(jobs, seen) == jobs

\* The candidates of one fetch: the records whose id is not in posted
\* (lines 198-200).

NewOf(jobs, seen) == SelectSeq(jobs, LAMBDA job : job.id \notin seen)

IdsOf(jobs) == [k \in DOMAIN jobs |-> jobs[k].id]

\* Fault: the new records are put in front of new_jobs.
Merge_Prepend(found, fresh) == fresh \o found

\* new_jobs.append(job) for each new record of a fetch, in its order
\* (lines 198-200).
Merge(found, fresh) == found \o fresh

\* One turn of the loops of lines 195-200: the next query is fetched and
\* its new records are appended; after the last query the cycle returns if
\* there is nothing new (lines 202-204) and else goes on to deliver.
FetchStep ==
    /\ proc = "running"
    /\ UNCHANGED <<alone, observing>>
    /\ pc = "fetching"
    /\ UNCHANGED <<committed, durable>>
    /\ \E resp \in Responses :
        LET r == fetch_company_jobs(Queries[q].company, Queries[q].site, resp)
            found == Merge(new_jobs, NewOf(r.jobs, posted))
        IN  /\ results' = Append(results,
                    [query |-> Queries[q],
                     resp |-> resp,
                     outcome |-> IF r.raised THEN "raised"
                                 ELSE IF r.caught THEN "caught" ELSE "ok",
                     ids |-> IdsOf(r.jobs)])
            /\ IF r.raised
               THEN /\ EndCycle("raised")
                    /\ starved' = NoneStarved
                    /\ UNCHANGED offered
               ELSE IF q < Len(Queries)
               THEN /\ new_jobs' = found
                    /\ q' = q + 1
                    /\ UNCHANGED <<instances, pc, posted, i, lastEnd, skipped,
                                   offered, starved>>
               ELSE IF found = <<>>
               THEN /\ EndCycle("returned")
                    /\ starved' = NoneStarved
                    /\ UNCHANGED offered
               ELSE /\ new_jobs' = found
                    /\ offered' = IdsOf(found)
                    /\ q' = q + 1
                    /\ i' = 1
                    /\ pc' = "sending"
                    /\ UNCHANGED <<instances, posted, lastEnd, skipped, starved>>
    /\ UNCHANGED <<env, proc, file, cycles, trace, everSent, prev>>

\* await bot.send_message(...) of post_job completes and the channel has
\* accepted the message (lines 179-184): save_posted_job is next.
SendOk ==
    /\ proc = "running"
    /\ UNCHANGED <<alone, observing>>
    /\ pc = "sending"
    /\ MarkdownParses(post_job_text(new_jobs[i]))
    /\ UNCHANGED <<committed, durable, starved>>
    /\ trace' = Append(trace, [ev |-> "sent", id |-> new_jobs[i].id])
    /\ everSent' = everSent \cup {new_jobs[i].id}
    /\ pc' = "committing"
    /\ skipped' = FALSE
    /\ UNCHANGED <<env, proc, file, instances, locals, cycles, results,
                   offered, lastEnd, prev>>

\* The candidates after the n-th that the cycle has not attempted and
\* whose own message the channel would take.
LeftBehind(jobs, n, tr) ==
    {jobs[k].id : k \in {m \in DOMAIN jobs :
                            /\ m > n
                            /\ MarkdownParses(post_job_text(jobs[m]))}}
        \ {tr[k].id : k \in DOMAIN tr}

\* One more cycle has ended by a failed send and left these behind.
Starve(st, left) ==
    LET ids == IF st.n = 0 THEN left ELSE st.ids \cap left
    IN  IF ids = {} THEN NoneStarved ELSE [n |-> st.n + 1, ids |-> ids]

\* Fault: the exception of the send is swallowed and the loop body goes
\* on to save_posted_job.
SendFails_Swallowed ==
    /\ proc = "running"
    /\ UNCHANGED <<alone, observing>>
    /\ pc = "sending"
    /\ UNCHANGED <<committed, durable, starved>>
    /\ trace' = Append(trace, [ev |-> "send_failed", id |-> new_jobs[i].id,
                            why |-> "unreachable"])
    /\ pc' = "committing"
    /\ skipped' = FALSE
    /\ UNCHANGED <<env, proc, file, instances, locals, cycles, results,
                   offered, everSent, lastEnd, prev>>

\* Why a send can fail: the channel is not reached, or it rejects the
\* markup of the text.
SendErrors(text) ==
    IF MarkdownParses(text) THEN {"unreachable"} ELSE {"unreachable", "rejected"}

\* await bot.send_message(...) raises: the exception leaves post_job and,
\* nothing catching it, check_and_post_jobs (line 207).
SendFails ==
    /\ proc = "running"
    /\ UNCHANGED <<alone, observing>>
    /\ pc = "sending"
    /\ UNCHANGED <<committed, durable>>
    /\ starved' = IF observing THEN Starve(starved, LeftBehind(new_jobs, i, trace))
                ELSE starved
    /\ \E why \in SendErrors(post_job_text(new_jobs[i])) :
        trace' = Append(trace, [ev |-> "send_failed", id |-> new_jobs[i].id,
                                why |-> why])
    /\ EndCycle("raised")
    /\ UNCHANGED <<env, proc, file, cycles, results, offered, everSent, prev>>

\* Fault: save_posted_job is called before the awaited send has completed.
CommitOk_BeforeSend ==
    /\ proc = "running"
    /\ UNCHANGED <<alone, observing>>
    /\ pc = "sending"
    /\ committed' = committed \cup {new_jobs[i].id}
    /\ UNCHANGED <<durable, starved>>
    /\ file' = save_posted_job(file, new_jobs[i].id)
    /\ trace' = Append(trace, [ev |-> "committed", id |-> new_jobs[i].id])
    /\ UNCHANGED <<env, proc, instances, pc, locals, cycles, results,
                   offered, everSent, lastEnd, prev, skipped>>

\* save_posted_job(job["id"]) (line 208) appends the id; the loop goes to
\* the next candidate, or the cycle returns after the last one.
CommitOk ==
    /\ proc = "running"
    /\ UNCHANGED <<alone, observing>>
    /\ pc = "committing"
    /\ committed' = committed \cup {new_jobs[i].id}
    /\ UNCHANGED durable
    /\ file' = save_posted_job(file, new_jobs[i].id)
    /\ trace' = Append(trace, [ev |-> "committed", id |-> new_jobs[i].id])
    /\ IF i < Len(new_jobs)
       THEN /\ i' = i + 1
            /\ pc' = "sending"
            /\ UNCHANGED <<instances, posted, new_jobs, q, lastEnd, skipped,
                           starved>>
       ELSE /\ EndCycle("returned")
            /\ starved' = NoneStarved
    /\ UNCHANGED <<env, proc, cycles, results, offered, everSent, prev>>

\* save_posted_job raises (the file cannot be opened or written): the
\* exception leaves check_and_post_jobs.
CommitFails ==
    /\ proc = "running"
    /\ UNCHANGED <<alone, observing>>
    /\ pc = "committing"
    /\ UNCHANGED <<committed, durable>>
    /\ starved' = NoneStarved
    /\ trace' = Append(trace, [ev |-> "commit_failed", id |-> new_jobs[i].id])
    /\ EndCycle("raised")
    /\ UNCHANGED <<env, proc, file, cycles, results, offered, everSent, prev>>

\* The process is killed in the middle of a cycle and started again: the
\* memory is lost, the file is kept.  The history of the cycle ends with it.
Crash ==
    /\ proc = "running"
    /\ UNCHANGED <<alone, observing>>
    /\ pc # "idle"
    /\ durable' = IF observing THEN committed ELSE durable
    /\ starved' = NoneStarved
    /\ UNCHANGED committed
    /\ pc' = "idle"
    /\ posted' = {}
    /\ new_jobs' = <<>>
    /\ q' = 0
    /\ i' = 0
    /\ instances' = 0
    /\ lastEnd' = "crashed"
    /\ skipped' = FALSE
    /\ trace' = <<>>
    /\ results' = <<>>
    /\ offered' = <<>>
    /\ UNCHANGED <<env, proc, file, cycles, everSent, prev>>

Next ==
    \/ TickStart
    \/ TickSkip
    \/ FetchStep
    \/ SendOk
    \/ SendFails
    \/ CommitOk
    \/ CommitFails
    \/ Crash

Spec == Init /\ [][Next]_vars

\* The steps of a started cycle are taken (every call in it returns or
\* raises within its timeout) and the interval trigger keeps firing; a
\* crash is never owed.
FairSpec ==
    /\ Spec
    /\ WF_vars(TickStart)
    /\ WF_vars(FetchStep)
    /\ WF_vars(SendOk \/ SendFails)
    /\ WF_vars(CommitOk \/ CommitFails)

\* The same bot with the histories of crashes and of candidates left
\* behind kept.
InitObserved ==
    /\ InitBot
    /\ observing = TRUE
    /\ arg = NoArg
    /\ ret = NoRet

SpecObserved == InitObserved /\ [][Next]_vars

\* ------------------------------------------------------------ functions alone

\* str.upper(), to write a phrase in capitals
upper(s) ==
    [k \in DOMAIN s |->
        IF \E u \in DOMAIN LowerCase : LowerCase[u] = s[k]
        THEN UpperCase[CHOOSE u \in DOMAIN LowerCase : LowerCase[u] = s[k]]
        ELSE s[k]]

\* str(n) for n >= 0
RECURSIVE DigitsOf(_)
DigitsOf(n) ==
    IF n < 10 THEN <<Digits[n + 1]>>
    ELSE DigitsOf(n \div 10) \o <<Digits[(n % 10) + 1]>>

UnitName ==
    [minute |-> <<"m", "i", "n", "u", "t", "e">>,
     hour |-> <<"h", "o", "u", "r">>,
     day |-> <<"d", "a", "y">>,
     week |-> <<"w", "e", "e", "k">>]

\* "<n> <unit>", the unit in the plural unless n is 1
Amount(n, unit) ==
    DigitsOf(n) \o <<" ">> \o UnitName[unit] \o (IF n = 1 THEN <<>> ELSE <<"s">>)

\* The second amount of a two-unit phrase.
MinorAmount == 3

\* The relative-age phrase the upstream writes: "<n> <unit>[ 3 <unit>] ago".
PhraseText(p) ==
    LET text == Amount(p.num, p.units[1])
                  \o (IF Len(p.units) > 1
                      THEN <<" ">> \o Amount(MinorAmount, p.units[2]) ELSE <<>>)
                  \o <<" ", "a", "g", "o">>
    IN  IF p.capitals THEN upper(text) ELSE text

\* The leading integers and the units of the phrases tried.
PhraseNums == {0, 1, 2, 10, 24, 25}
PhraseUnits ==
    { <<"minute">>, <<"hour">>, <<"day">>, <<"week">>,
      <<"hour", "minute">>, <<"day", "hour">>, <<"day", "minute">> }

Phrases ==
    [num : PhraseNums, units : PhraseUnits, capitals : BOOLEAN]

\* The summaries tried are of the lengths from SummaryLimit - SummaryMargin
\* to SummaryLimit + SummaryMargin, and the empty one.
SummaryMargin == 2

\* A description of n characters, no two neighbours alike.
SummaryOf(n) == [k \in 1..n |-> Digits[(k % 10) + 1]]

\* The Job Record fetch_company_jobs builds of a listing with that id,
\* title and description.
RecordOf(id, title, n) ==
    FetchLoop(<<"x">>, <<"s", "1">>,
              <<[Listing(id) EXCEPT !.title = title,
                                    !.description = SummaryOf(n)]>>).jobs[1]

RenderedJobs ==
    {RecordOf(id, title, n) :
        id \in {A, B}, title \in {<<"t">>, <<"t", "*">>},
        n \in {0} \cup ((SummaryLimit - SummaryMargin)..(SummaryLimit + SummaryMargin))}

\* is_within_24_hours is about to be applied to a phrase, to the empty
\* string or to None; or post_job to a Job Record.
InitAlone ==
    /\ InitBot
    /\ observing = FALSE
    /\ env = RequiredEnv
    /\ arg \in {[fn |-> "is_within_24_hours", phrase |-> p, text |-> PhraseText(p)] :
                    p \in Phrases}
              \cup {[fn |-> "is_within_24_hours", phrase |-> NoArg, text |-> t] :
                    t \in {None, <<>>}}
              \cup {[fn |-> "post_job", job |-> j] : j \in RenderedJobs}
    /\ ret = NoRet

\* The call of is_within_24_hours(posted_at) returns.
Classify ==
    /\ arg.fn = "is_within_24_hours"
    /\ ~ret.done
    /\ ret' = [done |-> TRUE, value |-> is_within_24_hours(arg.text)]
    /\ UNCHANGED <<committed, observing, durable, starved>>
    /\ UNCHANGED <<env, proc, file, instances, pc, locals, cycles, trace,
                   results, offered, everSent, lastEnd, prev, skipped, arg>>

\* Fault: post_job cuts the summary of the record itself.
Render_InPlace ==
    /\ arg.fn = "post_job"
    /\ ~ret.done
    /\ arg' = [arg EXCEPT !.job.summary = Take(@, SummaryLimit)]
    /\ ret' = [done |-> TRUE, text |-> post_job_text(arg'.job)]
    /\ UNCHANGED <<committed, observing, durable, starved>>
    /\ UNCHANGED <<env, proc, file, instances, pc, locals, cycles, trace,
                   results, offered, everSent, lastEnd, prev, skipped>>

\* post_job(job) builds its message (lines 169-177) and hands it to the
\* channel; the record it was given is only read.
Render ==
    /\ arg.fn = "post_job"
    /\ ~ret.done
    /\ ret' = [done |-> TRUE, text |-> post_job_text(arg.job)]
    /\ UNCHANGED <<committed, observing, durable, starved>>
    /\ UNCHANGED <<env, proc, file, instances, pc, locals, cycles, trace,
                   results, offered, everSent, lastEnd, prev, skipped, arg>>

NextAlone == Classify \/ Render

SpecAlone == InitAlone /\ [][NextAlone]_vars

\* ------------------------------------------------------------ claims


\* The ids a trace holds under the given kinds of event, in order.
Events(tr, kinds) == SelectSeq(tr, LAMBDA e : e.ev \in kinds)
Deliveries(tr) == IdsOf(Events(tr, {"sent"}))
Attempts(tr) == IdsOf(Events(tr, {"sent", "send_failed"}))

\* The fetches of the current cycle are all done and none raised.
FetchesDone ==
    /\ Len(results) = Len(Queries)
    /\ \A k \in DOMAIN results : results[k].outcome # "raised"

\* The ids the fetches of the current cycle returned.
Fetched == UNION {Range(results[k].ids) : k \in DOMAIN results}

\* The first cycle of the process has returned: it began with an empty
\* store, and no send or commit failed and no crash occurred in it.
FirstCycleReturned == cycles = 1 /\ pc = "idle" /\ lastEnd = "returned"

\* C1: with an initially empty store and two fetches returning {A,B} and
\* {B,C}, a cycle in which every send and commit succeeds performs exactly
\* the three deliveries A, B, C, and the store then holds exactly {A,B,C}.
C1_EachIdDeliveredOnce ==
    (/\ FirstCycleReturned
     /\ Len(results) = 2
     /\ results[1].ids = <<A, B>>
     /\ results[2].ids = <<B, C>>)
    => /\ Deliveries(trace) = <<A, B, C>>
       /\ load_posted_jobs(file) = {A, B, C}

\* C2: while a cycle runs, no send has been made or is under way in it for
\* an id of the set load_posted_jobs returned to it, however many fetches
\* returned that id.
C2_PostedNeverSent ==
    pc # "idle" =>
        /\ \A k \in DOMAIN trace : trace[k].id \notin posted
        /\ \A k \in DOMAIN new_jobs : new_jobs[k].id \notin posted

\* C2 witness: both fetches returned an id of the loaded set and the cycle
\* has gone on to deliver something else.
C2_Witness ==
    /\ pc = "sending"
    /\ \E id \in posted : \A k \in DOMAIN results : id \in Range(results[k].ids)

\* C3: the file changes only by the append of the id whose send has just
\* completed successfully, and a step in which a send fails writes nothing
\* and ends the cycle.
C3_CommitAfterSend ==
    [][/\ file' # file =>
            /\ trace # <<>>
            /\ trace[Len(trace)].ev = "sent"
            /\ file' = save_posted_job(file, trace[Len(trace)].id)
       /\ (trace' # trace /\ trace' # <<>> /\ trace'[Len(trace')].ev = "send_failed")
            => (file' = file /\ pc' = "idle")]_vars

\* C3 witness: a commit has followed a successful send, and the next send
\* of the cycle is awaited.
C3_Witness ==
    /\ pc = "sending"
    /\ Len(trace) = 2
    /\ trace[1].ev = "sent"
    /\ trace[2] = [ev |-> "committed", id |-> trace[1].id]

\* C4: after a cycle in which the send for a candidate failed, that id is
\* not in the store; and when the fetches of the next cycle return it
\* again, it is a candidate again.
C4_FailedIsReoffered ==
    /\ (pc = "idle" /\ lastEnd = "raised" /\ FailedIn(trace) # None)
        => FailedIn(trace) \notin load_posted_jobs(file)
    /\ (FetchesDone /\ prev # None /\ prev \in Fetched)
        => prev \in Range(offered)

\* C5: a cycle that ends without a crash and without a persistence error
\* has attempted a send for every candidate, also after a failed send.
C5_EveryCandidateAttempted ==
    (/\ pc = "idle"
     /\ lastEnd \in {"returned", "raised"}
     /\ offered # <<>>
     /\ Events(trace, {"commit_failed"}) = <<>>)
    => Attempts(trace) = offered

\* C6: a fetch whose request fails, or whose response is not of the
\* expected shape, comes to the empty list and does not end the cycle.
C6_FetchErrorIsolated ==
    \A k \in DOMAIN results :
        results[k].resp.kind \in {"exception", "list"}
            => results[k].outcome # "raised" /\ results[k].ids = <<>>

\* A listing with every expected field, recent and with a way to apply.
Eligible(j) ==
    /\ {"job_id", "title", "detected_extensions", "apply_options"} \subseteq DOMAIN j
    /\ is_within_24_hours(Get(j.detected_extensions, "posted_at", None))
    /\ j.apply_options # <<>>

\* C7: a response with a malformed listing among its jobs_results does not
\* make the fetch raise, and the fetch returns the records of its
\* well-formed listings.
C7_MalformedListingSkipped ==
    \A k \in DOMAIN results :
        results[k].resp.kind = "dict" =>
            /\ results[k].outcome # "raised"
            /\ LET listings == Get(results[k].resp.body, "jobs_results", <<>>)
               IN  \A n \in DOMAIN listings :
                       Eligible(listings[n])
                           => listings[n].job_id \in Range(results[k].ids)

\* C8 as stated: in every reachable state the store holds exactly the ids
\* of the messages that were sent successfully.
C8_StoreIffSent == load_posted_jobs(file) = everSent

\* C8 as amended: the file only ever changes by the append of an id whose
\* message the channel has accepted.
C8_StoredOnlyIfSent ==
    [][file' # file => \E id \in everSent : file' = save_posted_job(file, id)]_vars

\* C8 witness: the store holds a committed id while another id is sent and
\* not committed.
C8_Witness ==
    /\ file # <<>>
    /\ \E id \in everSent : id \notin load_posted_jobs(file)

\* C9: at most one instance of check_and_post_jobs is in flight, and the
\* scheduler counts one exactly while a cycle runs.
C9_NoOverlap == instances <= 1 /\ (pc # "idle" <=> instances = 1)

\* C9 witness: a tick fired while the cycle awaited a send, and was skipped.
C9_Witness == skipped /\ pc = "sending" /\ instances = 1

\* C10: every started cycle comes back to idle, and whatever ended a
\* cycle, the next one is started, up to the last tick of the scheduler.
C10_CycleEndsAndRestarts ==
    /\ [](pc # "idle" => <>(pc = "idle"))
    /\ [](proc = "running" => <>(cycles = MaxCycles))

\* C10 witness: a cycle was ended by the exception of a send, and the next
\* one has started.
C10_Witness == prev # None /\ pc = "fetching"

\* C11: of the phrases "<n> <unit>[ 3 <unit>] ago" in either letter case,
\* is_within_24_hours accepts those in minutes, "n hours" exactly when
\* n <= 24, and "1 day"; it rejects every phrase of 2 or more days, every
\* phrase without a recognised unit, the empty string and None.
C11_RecencyFilter ==
    (arg.fn = "is_within_24_hours" /\ ret.done) =>
        IF arg.phrase = NoArg THEN ~ret.value
        ELSE LET p == arg.phrase
             IN  /\ p.units = <<"minute">> => ret.value
                 /\ p.units = <<"hour">> => (ret.value <=> p.num <= 24)
                 /\ (p.units = <<"day">> /\ p.num = 1) => ret.value
                 /\ (p.units[1] = "day" /\ p.num >= 2) => ~ret.value
                 /\ p.units = <<"week">> => ~ret.value

\* C12: when a required variable is missing the process has exited, and
\* no cycle has started, nothing was fetched or sent, and the store was
\* never written.
C12_MissingConfigIsFatal ==
    env # RequiredEnv =>
        /\ proc = "exited"
        /\ pc = "idle"
        /\ instances = 0
        /\ cycles = 0
        /\ results = <<>>
        /\ trace = <<>>
        /\ everSent = {}
        /\ file = <<>>

\* C12 witness: the process has exited for want of SERPAPI_KEY alone.
C12_Witness == env = RequiredEnv \ {"SERPAPI_KEY"} /\ proc = "exited"

\* C13: every step, a crash and restart included, leaves what the file
\* held in place at its start, so the set of ids read from it only grows.
C13_AppendOnly ==
    [][/\ Len(file) <= Len(file')
       /\ SubSeq(file', 1, Len(file)) = file
       /\ load_posted_jobs(file) \subseteq load_posted_jobs(file')]_vars

\* C13 witness: the process has crashed and restarted after two commits,
\* and the store holds them.
C13_Witness ==
    /\ lastEnd = "crashed"
    /\ Cardinality(load_posted_jobs(file)) >= 2

\* C14: no send is left failed because the channel rejected the markup
\* of the message: the job goes out as plain text.
C14_MarkupFallsBackToPlain ==
    \A k \in DOMAIN trace :
        trace[k].ev = "send_failed" => trace[k].why # "rejected"

\* C15: the message post_job builds holds the first SummaryLimit
\* characters of the summary, or all of it when it is shorter, between the
\* parts made of the other fields, and the record is the same after the
\* call as before it.
C15_TruncationLeavesRecord ==
    [][(arg.fn = "post_job" /\ ret'.done) =>
          /\ arg' = arg
          /\ LET job == arg.job
                 cut == IF Len(job.summary) > SummaryLimit
                        THEN SummaryLimit ELSE Len(job.summary)
             IN  /\ Len(ret'.text) = Len(MessageHead(job)) + cut + Len(MessageTail(job))
                 /\ \A k \in 1..cut :
                        ret'.text[Len(MessageHead(job)) + k] = job.summary[k]]_vars

\* C15 witness: post_job has returned for a record whose summary is longer
\* than SummaryLimit.
C15_Witness ==
    /\ arg.fn = "post_job"
    /\ ret.done
    /\ Len(arg.job.summary) > SummaryLimit
    /\ Len(ret.text) = Len(MessageHead(arg.job)) + SummaryLimit
                          + Len(MessageTail(arg.job))

\* The records a response is to give, in the order of its listings: of
\* each listing that is recent and has a way to apply.
KeptIds(company, listings) ==
    LET kept == SelectSeq(listings, LAMBDA j :
                    /\ is_within_24_hours(
                           Get(Get(j, "detected_extensions", <<>>), "posted_at", None))
                    /\ Get(j, "apply_options", <<>>) # <<>>)
    IN  [k \in DOMAIN kept |-> JobId(company, kept[k])]

\* The ids of the fetches so far, in their order, less those in seen.
RECURSIVE MergeOrder(_, _)
MergeOrder(rs, seen) ==
    IF rs = <<>> THEN <<>>
    ELSE SelectSeq(Head(rs).ids, LAMBDA id : id \notin seen)
           \o MergeOrder(Tail(rs), seen)

C17_IdNeverEmpty ==
    /\ \A k \in DOMAIN results : \A n \in DOMAIN results[k].ids :
           results[k].ids[n] \notin {<<>>, None}
    /\ \A k \in DOMAIN new_jobs : new_jobs[k].id \notin {<<>>, None}

\* C17 witness: a fetch returned the record of a listing without job_id,
\* under its fallback id.
C17_Witness ==
    \E k \in DOMAIN results :
        /\ results[k].outcome = "ok"
        /\ \E n \in DOMAIN Get(results[k].resp.body, "jobs_results", <<>>) :
               LET j == results[k].resp.body.jobs_results[n]
               IN  /\ "job_id" \notin DOMAIN j
                   /\ "title" \in DOMAIN j
                   /\ results[k].query.company \o <<"-">> \o j.title
                          \in Range(results[k].ids)

\* C18: an id whose save_posted_job call had completed when the process
\* crashed is not sent again after the restart.
C18_CommittedSurvivesCrash ==
    \A k \in DOMAIN trace :
        trace[k].ev = "sent" => trace[k].id \notin durable

\* C19: every id whose save_posted_job call completed is in the set
\* load_posted_jobs returns of the file.
C19_CommitLoadRoundTrip ==
    \A id \in committed : id \in load_posted_jobs(file)

\* C20: no candidate whose own message the channel would take is left
\* unattempted in every cycle of the scheduler, each ended by the failed
\* send of a candidate before it.
C20_NoStarvation == starved.n < MaxCycles

====
